---------------------------- MODULE Spec2Model ----------------------------
(***************************************************************************)
(* Cart -> order conversion and promo-code discount engine of the shop.    *)
(*                                                                         *)
(* The state is the content of the database tables (PromoCode, Product,    *)
(* Cart, CartItem, Order, OrderItem) plus, for the handlers that are       *)
(* followed statement by statement, the in-memory objects of each running  *)
(* request.                                                                *)
(*                                                                         *)
(* Money is counted in ten-thousandths of the currency unit: prices are    *)
(* whole units (IntegerField), promo values and stored discounts have two  *)
(* decimal places (DecimalField(decimal_places=2)) and a percentage of a   *)
(* whole amount has at most four.                                          *)
(***************************************************************************)
EXTENDS Integers, Sequences, FiniteSets, TLC

VARIABLES
    promo,        \* PromoCode table: code -> row
    now,          \* timezone.now()
    rounding,     \* how the database backend rounds a decimal to the column's places
    product,      \* Product table: id -> row
    cart,         \* Cart table: id -> [promo_code, applied_discount]
    cartItems,    \* CartItem table: cart id -> rows in primary-key order
    orders,       \* Order table: id -> row (a deleted row leaves the domain)
    orderItems,   \* OrderItem table: rows in primary-key order
    nextOrderId,  \* next primary key of the Order table
    proc,         \* running requests: their position and in-memory objects
    ret           \* the last completed call: what was called and what it returned

vars == <<promo, now, rounding, product, cart, cartItems, orders, orderItems, nextOrderId, proc, ret>>

-----------------------------------------------------------------------------
(* Bounds of the model *)

MaxUsage == 2
MaxNow == 2
MaxQty == 2
MaxLines == 2
MaxOrders == 3
MaxStock == 6
MaxCalls == 3
MaxCarts == 3
MaxCartLines == 2
MaxLineQty == 2

-----------------------------------------------------------------------------
(* Representation *)

NULL == -1

\* a null promo_code reference
NoPromo == ""

\* one hundredth of the currency unit (decimal_places=2)
Cent == 100

\* one currency unit
Unit == Cent * Cent

Min(a, b) == IF a <= b THEN a ELSE b

Max(a, b) == IF a >= b THEN a ELSE b

\* Python truthiness of an optional integer: None and 0 are both false
Truthy(x) == x # NULL /\ x # 0

Result(ok, message) == [ok |-> ok, message |-> message]

-----------------------------------------------------------------------------
(* Promo-code engine: apps/order/models.py *)

MsgNotActive == "Promo code is not active"
MsgExpired == "Promo code has expired"
MsgLimit == "Promo code usage limit reached"
MsgMinimum == "Minimum order amount is"
MsgInvalid == "Invalid promo code"
MsgApplied == "Promo code applied! You saved"

\* PromoCode.is_valid(self), evaluated at time t
is_valid(p, t) ==
    IF ~p.is_active THEN Result(FALSE, MsgNotActive)
    ELSE IF p.expiry_date # NULL /\ p.expiry_date < t THEN Result(FALSE, MsgExpired)
    ELSE IF Truthy(p.max_usage) /\ p.current_usage >= p.max_usage THEN Result(FALSE, MsgLimit)
    ELSE Result(TRUE, "Valid")

\* PromoCode.can_apply, mutated: the minimum order amount is not checked
can_apply_no_minimum(p, order_amount, t) == is_valid(p, t)

\* PromoCode.can_apply(self, order_amount)
can_apply(p, order_amount, t) ==
    LET v == is_valid(p, t) IN
    IF ~v.ok THEN Result(FALSE, v.message)
    ELSE IF order_amount < p.min_order_amount THEN Result(FALSE, MsgMinimum)
    ELSE Result(TRUE, "Can apply")

\* (order_amount * discount_value) / 100 in exact decimal arithmetic;
\* order_amount is a whole number of units (a sum of integer prices)
Percentage(order_amount, discount_value) ==
    (order_amount \div Unit) * (discount_value \div Cent)

\* PromoCode.calculate_discount, mutated: the result is not clamped
calculate_discount_unclamped(p, order_amount, t) ==
    IF ~can_apply(p, order_amount, t).ok THEN 0
    ELSE IF p.discount_type = "percentage"
         THEN Percentage(order_amount, p.discount_value)
         ELSE p.discount_value

\* PromoCode.calculate_discount(self, order_amount)
calculate_discount(p, order_amount, t) ==
    IF ~can_apply(p, order_amount, t).ok THEN 0
    ELSE LET discount == IF p.discount_type = "percentage"
                         THEN Percentage(order_amount, p.discount_value)
                         ELSE p.discount_value
         IN Min(discount, order_amount)


\* PromoCode.use_code(self): the in-memory row after the increment (then saved)
use_code(p) == [p EXCEPT !.current_usage = @ + 1]

-----------------------------------------------------------------------------
(* Catalog: apps/product/models.py *)

\* Product.get_sale_price(self): the price is a whole number of units; int()
\* drops the fraction of price - price * discount_percentage / 100
get_sale_price(p) ==
    IF p.on_sale /\ p.discount_percentage > 0
    THEN (((p.price \div Unit) * (100 - p.discount_percentage)) \div 100) * Unit
    ELSE p.price

\* Product.get_savings_amount(self): int() drops the fraction of
\* price * discount_percentage / 100
get_savings_amount(p) ==
    IF p.on_sale /\ p.discount_percentage > 0
    THEN (((p.price \div Unit) * p.discount_percentage) \div 100) * Unit
    ELSE 0

\* Product.can_order(self, quantity)
can_order(p, quantity) == p.is_active /\ p.stock_quantity >= quantity

\* Product.reduce_stock, mutated: one unit too many is taken
reduce_stock_extra(p, quantity) ==
    IF p.stock_quantity >= quantity
    THEN [p EXCEPT !.stock_quantity = @ - quantity - 1]
    ELSE p

\* Product.reduce_stock(self, quantity): the in-memory row afterwards; it is
\* saved only when it changed
reduce_stock(p, quantity) ==
    IF p.stock_quantity >= quantity
    THEN [p EXCEPT !.stock_quantity = @ - quantity]
    ELSE p

\* Product.increase_stock(self, quantity): the in-memory row afterwards
increase_stock(p, quantity) == [p EXCEPT !.stock_quantity = @ + quantity]

-----------------------------------------------------------------------------
(* Cart engine: apps/cart/models.py *)

\* str.upper() on the promo codes a client can send
Upper(s) ==
    CASE s = "percent10" -> "PERCENT10"
      [] s = "save" -> "SAVE"
      [] s = "welcome" -> "WELCOME"
      [] OTHER -> s

\* CartItem.get_total_price(self): the product row is read from the table
CartItem_get_total_price(item) == product[item.product].price * item.quantity

RECURSIVE SumLines(_)
\* sum(item.get_total_price() for item in self.items.all())
SumLines(items) ==
    IF items = <<>> THEN 0
    ELSE CartItem_get_total_price(Head(items)) + SumLines(Tail(items))

\* Cart.get_subtotal(self), over the cart's rows
get_subtotal(items) == SumLines(items)

\* Cart.get_total_price, mutated: the difference is not clamped at 0
get_total_price_unclamped(c, items) == get_subtotal(items) - c.applied_discount

\* Cart.get_total_price(self): subtotal less the stored discount, never below 0
get_total_price(c, items) == Max(get_subtotal(items) - c.applied_discount, 0)

\* the rounding of a value exactly between two cents: to the even cent where
\* Django formats the number itself, upwards where the database rounds a numeric
RoundingModes == {"half_even", "half_up"}

\* What a DecimalField(decimal_places=2) column holds after a value with more
\* decimal places is saved: the nearest cent; a value exactly between two
\* cents goes where the backend of the installation rounds it
Quantize(x) ==
    LET lo == (x \div Cent) * Cent
        r == x % Cent
    IN IF r = 0 THEN {x}
       ELSE IF 2 * r < Cent THEN {lo}
       ELSE IF 2 * r > Cent THEN {lo + Cent}
       ELSE IF rounding = "half_up" THEN {lo + Cent}
       ELSE IF (lo \div Cent) % 2 = 0 THEN {lo}
       ELSE {lo + Cent}

\* Cart.apply_promo_code, mutated: a failed application drops the code the cart had
apply_promo_code_clearing(c, items, promo_code) ==
    LET code == Upper(promo_code)
        cleared == [promo_code |-> NoPromo, applied_discount |-> 0]
    IN
    IF code \notin DOMAIN promo
    THEN [res |-> Result(FALSE, MsgInvalid), rows |-> {cleared}]
    ELSE LET promoRow == promo[code]
             subtotal == get_subtotal(items)
             check == can_apply(promoRow, subtotal, now)
         IN IF ~check.ok
            THEN [res |-> check, rows |-> {cleared}]
            ELSE [res |-> Result(TRUE, MsgApplied),
                  rows |-> {[promo_code |-> code, applied_discount |-> d] :
                              d \in Quantize(calculate_discount(promoRow, subtotal, now))}]

\* Cart.apply_promo_code, mutated: the discount is computed on the discounted total
apply_promo_code_on_total(c, items, promo_code) ==
    LET code == Upper(promo_code) IN
    IF code \notin DOMAIN promo
    THEN [res |-> Result(FALSE, MsgInvalid), rows |-> {c}]
    ELSE LET promoRow == promo[code]
             subtotal == get_total_price(c, items)
             check == can_apply(promoRow, subtotal, now)
         IN IF ~check.ok
            THEN [res |-> check, rows |-> {c}]
            ELSE [res |-> Result(TRUE, MsgApplied),
                  rows |-> {[promo_code |-> code, applied_discount |-> d] :
                              d \in Quantize(calculate_discount(promoRow, subtotal, now))}]

\* Cart.apply_promo_code(self, promo_code) on cart row c with line items
\* `items`: the returned (success, message) and the cart rows the table can
\* hold afterwards
apply_promo_code(c, items, promo_code) ==
    LET code == Upper(promo_code) IN
    IF code \notin DOMAIN promo
    THEN [res |-> Result(FALSE, MsgInvalid), rows |-> {c}]
    ELSE LET promoRow == promo[code]
             subtotal == get_subtotal(items)
             check == can_apply(promoRow, subtotal, now)
         IN IF ~check.ok
            THEN [res |-> check, rows |-> {c}]
            ELSE [res |-> Result(TRUE, MsgApplied),
                  rows |-> {[promo_code |-> code, applied_discount |-> d] :
                              d \in Quantize(calculate_discount(promoRow, subtotal, now))}]

\* Cart.remove_promo_code, mutated: the discount is left on the cart
remove_promo_code_keeping_discount(c) == [c EXCEPT !.promo_code = NoPromo]

\* Cart.remove_promo_code(self)
remove_promo_code(c) == [c EXCEPT !.promo_code = NoPromo, !.applied_discount = 0]

\* the indices of the rows of (product, size, color)
Matching(items, p, size, color) ==
    {i \in 1..Len(items) :
        items[i].product = p /\ items[i].size = size /\ items[i].color = color}

\* CartItem.objects.get_or_create(...) and the quantity update of add_item
add_item_rows(items, p, quantity, size, color) ==
    LET m == Matching(items, p, size, color) IN
    IF m = {}
    THEN Append(items, [product |-> p, size |-> size, color |-> color,
                        quantity |-> quantity])
    ELSE LET i == CHOOSE j \in m : TRUE
         IN [items EXCEPT ![i].quantity = @ + quantity]

-----------------------------------------------------------------------------
(* The data the specifications start from *)

Products == {1, 2}

Carts == {1, 2}

Procs == {1, 2}

\* Size rows of a product (product.sizes); no product has Color rows
SizesOf(p) == IF p = 1 THEN {1} ELSE {}

ColorsOf(p) == {}

\* product 1 is on sale at 15% off, product 2 is not on sale
Catalog ==
    (1 :> [price |-> 150 * Unit, stock_quantity |-> 2, is_active |-> TRUE,
           on_sale |-> TRUE, discount_percentage |-> 15]) @@
    (2 :> [price |-> 700 * Unit, stock_quantity |-> 1, is_active |-> TRUE,
           on_sale |-> FALSE, discount_percentage |-> 20])

\* percentage 10, minimum order 500, one use, expires after time 1
Percent10 ==
    [is_active |-> TRUE, expiry_date |-> 1, max_usage |-> 1, current_usage |-> 0,
     discount_type |-> "percentage", discount_value |-> 10 * Unit,
     min_order_amount |-> 500 * Unit]

\* the second code of the shop: 12.55 percent, no minimum, no cap, no expiry
Save ==
    [is_active |-> TRUE, expiry_date |-> NULL, max_usage |-> NULL, current_usage |-> 0,
     discount_type |-> "percentage", discount_value |-> 1255 * Cent, min_order_amount |-> 0]

\* what a client can type into the promo form
CodeInputs == {"percent10", "SAVE", "NOPE"}

EmptyCart == [promo_code |-> NoPromo, applied_discount |-> 0]

Idle == [pc |-> "idle"]

\* the record of a completed call
Call(op, code, amount, ok, message, value, before) ==
    [op |-> op, code |-> code, amount |-> amount, ok |-> ok, message |-> message,
     value |-> value, before |-> before]

NoCall == Call("none", "", 0, TRUE, "", 0, EmptyCart)

-----------------------------------------------------------------------------
(* The promo-code engine as pure functions of a code, the time and an amount *)

Amounts == {0, 300 * Unit, 500 * Unit, 1000 * Unit}

PromoRows ==
    [is_active : BOOLEAN,
     expiry_date : {NULL} \cup (0..MaxNow),
     max_usage : {NULL} \cup (0..MaxUsage),
     current_usage : 0..MaxUsage,
     discount_type : {"fixed", "percentage"},
     discount_value : {0, 10 * Unit, 1255 * Cent, 150 * Unit, 400 * Unit},
     min_order_amount : {0, 500 * Unit}]

InitPromo ==
    /\ promo \in [{"PERCENT10"} -> PromoRows]
    /\ now \in 0..MaxNow
    /\ rounding = "half_even"
    /\ product = Catalog
    /\ cart = [c \in Carts |-> EmptyCart]
    /\ cartItems = [c \in Carts |-> <<>>]
    /\ orders = <<>>
    /\ orderItems = <<>>
    /\ nextOrderId = 1
    /\ proc = [pr \in Procs |-> Idle]
    /\ ret = NoCall

tables == <<promo, now, rounding, product, cart, cartItems, orders, orderItems, nextOrderId, proc>>

\* promo.is_valid()
Do_is_valid(code) ==
    LET r == is_valid(promo[code], now) IN
    /\ ret' = Call("is_valid", code, 0, r.ok, r.message, 0, EmptyCart)
    /\ UNCHANGED tables

\* promo.can_apply(order_amount)
Do_can_apply(code, amount) ==
    LET r == can_apply(promo[code], amount, now) IN
    /\ ret' = Call("can_apply", code, amount, r.ok, r.message, 0, EmptyCart)
    /\ UNCHANGED tables

\* promo.calculate_discount(order_amount)
Do_calculate_discount(code, amount) ==
    LET d == calculate_discount(promo[code], amount, now) IN
    /\ ret' = Call("calculate_discount", code, amount, TRUE, "", d, EmptyCart)
    /\ UNCHANGED tables

NextPromo ==
    \/ \E code \in DOMAIN promo : Do_is_valid(code)
    \/ \E code \in DOMAIN promo, amount \in Amounts : Do_can_apply(code, amount)
    \/ \E code \in DOMAIN promo, amount \in Amounts : Do_calculate_discount(code, amount)

SpecPromo == InitPromo /\ [][NextPromo]_vars

\* whether the code passes every check of can_apply for the amount of the call
Applicable(p, amount) ==
    /\ p.is_active
    /\ ~(p.expiry_date # NULL /\ p.expiry_date < now)
    /\ ~(p.max_usage # NULL /\ p.max_usage # 0 /\ p.current_usage >= p.max_usage)
    /\ amount >= p.min_order_amount

\* C7: calculate_discount(amount) is min(amount * discount_value / 100, amount)
\* for a percentage code and min(discount_value, amount) for a fixed code, so
\* it never exceeds the amount; it is 0 when the code fails can_apply(amount).
C7_CalculateDiscount ==
    ret.op = "calculate_discount" =>
        LET p == promo[ret.code]
            amount == ret.amount
            percent == (amount \div Unit) * (p.discount_value \div Cent)
        IN IF ~Applicable(p, amount) THEN ret.value = 0
           ELSE /\ ret.value <= amount
                /\ p.discount_type = "percentage" =>
                       ret.value = (IF percent <= amount THEN percent ELSE amount)
                /\ p.discount_type = "fixed" =>
                       ret.value = (IF p.discount_value <= amount
                                    THEN p.discount_value ELSE amount)

\* a percentage above 100 was applied to a positive amount and clamped to it
C7_Witness ==
    /\ ret.op = "calculate_discount"
    /\ Applicable(promo[ret.code], ret.amount)
    /\ promo[ret.code].discount_type = "percentage"
    /\ promo[ret.code].discount_value > 100 * Unit
    /\ ret.amount > 0
    /\ ret.value = ret.amount

\* C8: is_valid reports the first failing check in the order inactive,
\* expired, usage limit reached (for a code with a cap, current_usage >=
\* max_usage), and every other code is valid; can_apply reports the minimum
\* order failure only for a code that is_valid accepts.
C8_ValidityOrder ==
    LET p == promo[ret.code]
        expired == p.expiry_date # NULL /\ p.expiry_date < now
        exhausted == p.max_usage # NULL /\ p.current_usage >= p.max_usage
    IN /\ ret.op = "is_valid" =>
            IF ~p.is_active THEN ~ret.ok /\ ret.message = MsgNotActive
            ELSE IF expired THEN ~ret.ok /\ ret.message = MsgExpired
            ELSE IF exhausted THEN ~ret.ok /\ ret.message = MsgLimit
            ELSE ret.ok
       /\ ret.op = "can_apply" =>
            IF ~p.is_active THEN ~ret.ok /\ ret.message = MsgNotActive
            ELSE IF expired THEN ~ret.ok /\ ret.message = MsgExpired
            ELSE IF exhausted THEN ~ret.ok /\ ret.message = MsgLimit
            ELSE IF ret.amount < p.min_order_amount
                 THEN ~ret.ok /\ ret.message = MsgMinimum
            ELSE ret.ok

\* C9: a code with a cap (max_usage not null, whatever its value) whose
\* current_usage equals max_usage is rejected by is_valid and can_apply, even
\* if it is active and unexpired.
C9_ExhaustedRejected ==
    ret.op \in {"is_valid", "can_apply"} =>
        LET p == promo[ret.code] IN
        (/\ p.is_active
         /\ ~(p.expiry_date # NULL /\ p.expiry_date < now)
         /\ p.max_usage # NULL
         /\ p.current_usage = p.max_usage) => ~ret.ok

-----------------------------------------------------------------------------
(* The cart handlers, one request at a time: apps/cart/models.py, views.py *)

\* quantities a caller passes
Quantities == 1..MaxQty

\* the sizes (colors) a request can carry for a product: one of its Size
\* rows when it has some, none otherwise
SizeChoices(p) == IF SizesOf(p) = {} THEN {NULL} ELSE SizesOf(p)

ColorChoices(p) == IF ColorsOf(p) = {} THEN {NULL} ELSE ColorsOf(p)

InitCart ==
    /\ promo = ("PERCENT10" :> Percent10) @@ ("SAVE" :> Save)
    /\ now = 0
    /\ rounding \in RoundingModes
    /\ product = Catalog
    /\ cart = [c \in Carts |-> EmptyCart]
    /\ cartItems = [c \in Carts |-> <<>>]
    /\ orders = <<>>
    /\ orderItems = <<>>
    /\ nextOrderId = 1
    /\ proc = [pr \in Procs |-> Idle]
    /\ ret = NoCall

\* CartItem.quantity is a PositiveIntegerField: the database refuses a
\* negative value and accepts 0 (MinValueValidator is not run by save)
Storable(quantity) == quantity >= 0

\* Cart.add_item(product, quantity, size, color)
add_item(c, p, quantity, size, color) ==
    LET items == add_item_rows(cartItems[c], p, quantity, size, color) IN
    /\ Cardinality(Matching(cartItems[c], p, size, color)) <= 1
    /\ \A i \in 1..Len(items) : items[i].quantity <= MaxQty
    /\ cartItems' = [cartItems EXCEPT ![c] = items]
    /\ IF cart[c].promo_code # NoPromo
       THEN LET a == apply_promo_code(cart[c], items, cart[c].promo_code) IN
            /\ \E row \in a.rows : cart' = [cart EXCEPT ![c] = row]
            /\ ret' = Call("add_item", cart[c].promo_code, get_subtotal(items),
                           a.res.ok, a.res.message, 0, cart[c])
       ELSE /\ cart' = cart
            /\ ret' = Call("add_item", "", get_subtotal(items), TRUE, "", 0, cart[c])
    /\ UNCHANGED <<promo, now, rounding, product, orders, orderItems, nextOrderId, proc>>

\* POST add_to_cart: product lookup, stock check, then update or create
add_to_cart(c, p, quantity, size, color) ==
    LET m == Matching(cartItems[c], p, size, color)
        accepted == product[p].is_active /\ can_order(product[p], quantity)
    IN
    /\ size \in SizeChoices(p) /\ color \in ColorChoices(p)
    /\ IF ~accepted
       THEN cartItems' = cartItems
       ELSE IF m # {}
       THEN LET i == CHOOSE j \in m : \A k \in m : j <= k IN
            /\ cartItems[c][i].quantity + quantity <= MaxQty
            /\ cartItems' = [cartItems EXCEPT ![c][i].quantity = @ + quantity]
       ELSE cartItems' = [cartItems EXCEPT ![c] =
                Append(@, [product |-> p, size |-> size, color |-> color,
                           quantity |-> quantity])]
    /\ ret' = Call("add_to_cart", "", 0, accepted, "", 0, cart[c])
    /\ UNCHANGED <<promo, now, rounding, product, cart, orders, orderItems, nextOrderId, proc>>

\* POST increase_cart_item_quantity for the i-th line of the cart
increase_cart_item_quantity(c, i) ==
    LET item == cartItems[c][i]
        refused == item.quantity >= product[item.product].stock_quantity
    IN
    /\ IF refused
       THEN cartItems' = cartItems
       ELSE cartItems' = [cartItems EXCEPT ![c][i].quantity = @ + 1]
    /\ ret' = Call("increase_cart_item_quantity", "", 0, ~refused, "", 0, cart[c])
    /\ UNCHANGED <<promo, now, rounding, product, cart, orders, orderItems, nextOrderId, proc>>

\* POST decrease_cart_item_quantity for the i-th line of the cart
decrease_cart_item_quantity(c, i) ==
    LET refused == cartItems[c][i].quantity = 1 \/ ~Storable(cartItems[c][i].quantity - 1) IN
    /\ IF refused
       THEN cartItems' = cartItems
       ELSE cartItems' = [cartItems EXCEPT ![c][i].quantity = @ - 1]
    /\ ret' = Call("decrease_cart_item_quantity", "", 0, ~refused, "", 0, cart[c])
    /\ UNCHANGED <<promo, now, rounding, product, cart, orders, orderItems, nextOrderId, proc>>

\* POST remove_from_cart for the i-th line of the cart
remove_from_cart(c, i) ==
    /\ cartItems' = [cartItems EXCEPT ![c] =
            [k \in 1..(Len(@) - 1) |-> IF k < i THEN @[k] ELSE @[k + 1]]]
    /\ ret' = Call("remove_from_cart", "", 0, TRUE, "", 0, cart[c])
    /\ UNCHANGED <<promo, now, rounding, product, cart, orders, orderItems, nextOrderId, proc>>

\* POST apply_promo_code: cart.apply_promo_code(promo_code)
Do_apply_promo_code(c, promo_code) ==
    LET a == apply_promo_code(cart[c], cartItems[c], promo_code) IN
    /\ \E row \in a.rows : cart' = [cart EXCEPT ![c] = row]
    /\ ret' = Call("apply_promo_code", promo_code, get_subtotal(cartItems[c]),
                   a.res.ok, a.res.message, 0, cart[c])
    /\ UNCHANGED <<promo, now, rounding, product, cartItems, orders, orderItems, nextOrderId, proc>>

\* POST remove_promo_code: cart.remove_promo_code()
Do_remove_promo_code(c) ==
    /\ cart' = [cart EXCEPT ![c] = remove_promo_code(@)]
    /\ ret' = Call("remove_promo_code", "", 0, TRUE, "", 0, cart[c])
    /\ UNCHANGED <<promo, now, rounding, product, cartItems, orders, orderItems, nextOrderId, proc>>

\* GET cart_view: the subtotal and the total shown for the cart
cart_view(c) ==
    /\ ret' = Call("cart_view", "", get_subtotal(cartItems[c]), TRUE, "",
                   get_total_price(cart[c], cartItems[c]), cart[c])
    /\ UNCHANGED tables

\* the requests of the owner of cart 1
NextCart ==
    \/ \E p \in Products, q \in Quantities :
           \E size \in SizeChoices(p) : add_item(1, p, q, size, NULL)
    \/ \E p \in Products, q \in Quantities :
           \E size \in SizeChoices(p), color \in ColorChoices(p) :
               add_to_cart(1, p, q, size, color)
    \/ \E i \in 1..Len(cartItems[1]) : increase_cart_item_quantity(1, i)
    \/ \E i \in 1..Len(cartItems[1]) : decrease_cart_item_quantity(1, i)
    \/ \E i \in 1..Len(cartItems[1]) : remove_from_cart(1, i)
    \/ \E code \in CodeInputs : Do_apply_promo_code(1, code)
    \/ Do_remove_promo_code(1)
    \/ cart_view(1)

SpecCart == InitCart /\ [][NextCart]_vars

\* C4: in every state reached by cart operations the stored applied_discount
\* is the discount recomputed from the applied code and the current subtotal
\* (to the cent, the precision of the column), and 0 when no code is applied.
C4_DiscountFresh ==
    \A c \in Carts :
        IF cart[c].promo_code = NoPromo
        THEN cart[c].applied_discount = 0
        ELSE cart[c].applied_discount \in
                 Quantize(calculate_discount(promo[cart[c].promo_code],
                                             get_subtotal(cartItems[c]), now))

\* C5: when add_item re-applies the cart's promo code and the code no longer
\* qualifies, the cart's applied_discount is 0 after add_item returns.
C5_StaleDiscountReset ==
    (ret.op = "add_item" /\ ret.before.promo_code # NoPromo /\ ~ret.ok)
        => cart[1].applied_discount = 0

\* C6: the total a cart shows is max(subtotal - applied_discount, 0), never
\* negative, also when the stored discount exceeds the current subtotal.
C6_TotalPrice ==
    ret.op = "cart_view" =>
        LET difference == get_subtotal(cartItems[1]) - cart[1].applied_discount IN
        /\ ret.value = (IF difference > 0 THEN difference ELSE 0)
        /\ ret.value >= 0

\* the cart was shown while its stored discount was larger than its subtotal
C6_Witness ==
    /\ ret.op = "cart_view"
    /\ cartItems[1] # <<>>
    /\ cart[1].applied_discount > get_subtotal(cartItems[1])
    /\ ret.value = 0

\* the sum over the lines of the product's current unit price (its sale price
\* when it is on sale) times the quantity
RECURSIVE SumAtSalePrice(_)
SumAtSalePrice(items) ==
    IF items = <<>> THEN 0
    ELSE get_sale_price(product[Head(items).product]) * Head(items).quantity
         + SumAtSalePrice(Tail(items))

\* C20: get_subtotal() is the sum over the cart's lines of the product's
\* current unit price times the quantity, the unit price of a product on sale
\* with discount_percentage > 0 being its sale price and otherwise its price.
C20_SubtotalAtSalePrice ==
    ret.op = "cart_view" => ret.amount = SumAtSalePrice(cartItems[1])

-----------------------------------------------------------------------------
(* Promo application on a cart whose lines stay as they are, against codes *)
(* in every condition: active or not, expired or not, used up or not       *)

\* the lines of a cart holding q1 units of product 1 and q2 units of product 2
LinesOf(q1, q2) ==
    (IF q1 = 0 THEN <<>>
     ELSE <<[product |-> 1, size |-> NULL, color |-> NULL, quantity |-> q1]>>)
    \o (IF q2 = 0 THEN <<>>
        ELSE <<[product |-> 2, size |-> NULL, color |-> NULL, quantity |-> q2]>>)

ApplyCarts == {LinesOf(q1, q2) : q1 \in 0..MaxQty, q2 \in 0..MaxQty}

\* the 10% code with and without an expiry date, unused and used up
ApplyCodes ==
    {[Percent10 EXCEPT !.expiry_date = e, !.current_usage = u] :
        e \in {NULL, 1}, u \in {0, Percent10.max_usage}}

\* a code the administrator typed in lower case: 50 off, no minimum, no cap
Welcome ==
    [is_active |-> TRUE, expiry_date |-> NULL, max_usage |-> NULL, current_usage |-> 0,
     discount_type |-> "fixed", discount_value |-> 50 * Unit, min_order_amount |-> 0]

\* what a client can type into the promo form of this shop
ApplyInputs == CodeInputs \cup {"welcome"}

InitApply ==
    /\ \E row \in ApplyCodes :
          promo = ("PERCENT10" :> row) @@ ("SAVE" :> Save) @@ ("welcome" :> Welcome)
    /\ now \in 0..MaxNow
    /\ rounding \in RoundingModes
    /\ product = Catalog
    /\ cart = [c \in Carts |-> EmptyCart]
    /\ \E items \in ApplyCarts : cartItems = (1 :> items) @@ (2 :> <<>>)
    /\ orders = <<>>
    /\ orderItems = <<>>
    /\ nextOrderId = 1
    /\ proc = [pr \in Procs |-> Idle]
    /\ ret = NoCall

\* PromoCodeAdmin.mark_as_active on the selected code
mark_as_active(code) ==
    /\ promo' = [promo EXCEPT ![code].is_active = TRUE]
    /\ ret' = Call("mark_as_active", code, 0, TRUE, "", 0, cart[1])
    /\ UNCHANGED <<now, rounding, product, cart, cartItems, orders, orderItems,
                   nextOrderId, proc>>

\* PromoCodeAdmin.mark_as_inactive on the selected code
mark_as_inactive(code) ==
    /\ promo' = [promo EXCEPT ![code].is_active = FALSE]
    /\ ret' = Call("mark_as_inactive", code, 0, TRUE, "", 0, cart[1])
    /\ UNCHANGED <<now, rounding, product, cart, cartItems, orders, orderItems,
                   nextOrderId, proc>>

\* the administrator deletes a code: Cart.promo_code is on_delete=SET_NULL, so
\* the carts that hold it lose the reference and keep their other columns
delete_promo_code(code) ==
    /\ promo' = [k \in DOMAIN promo \ {code} |-> promo[k]]
    /\ cart' = [c \in DOMAIN cart |->
                  IF cart[c].promo_code = code
                  THEN [cart[c] EXCEPT !.promo_code = NoPromo]
                  ELSE cart[c]]
    /\ ret' = Call("delete_promo_code", code, 0, TRUE, "", 0, cart[1])
    /\ UNCHANGED <<now, rounding, product, cartItems, orders, orderItems, nextOrderId, proc>>

NextApply ==
    \/ \E code \in ApplyInputs : Do_apply_promo_code(1, code)
    \/ Do_remove_promo_code(1)
    \/ \E code \in DOMAIN promo : mark_as_active(code)
    \/ \E code \in DOMAIN promo : mark_as_inactive(code)
    \/ \E code \in DOMAIN promo : delete_promo_code(code)

SpecApply == InitApply /\ [][NextApply]_vars

\* C11: whenever apply_promo_code returns failure (unknown, inactive, expired
\* or used-up code, or subtotal below the minimum) the cart's promo_code,
\* applied_discount and line items are what they were before the call, also
\* when another code was applied before.
C11_FailureKeepsCart ==
    [][(ret'.op = "apply_promo_code" /\ ~ret'.ok) =>
           /\ cart' = cart
           /\ cartItems' = cartItems
           /\ ret'.message \in {MsgInvalid, MsgNotActive, MsgExpired, MsgLimit, MsgMinimum}]_vars

\* the 10% code, inactive, was refused on a cart that keeps the other code
\* and its discount
C11_Witness ==
    /\ ret.op = "apply_promo_code" /\ ~ret.ok
    /\ ret.message = MsgNotActive
    /\ Upper(ret.code) = "PERCENT10"
    /\ ret.before.promo_code = "SAVE"
    /\ ret.before.applied_discount > 0
    /\ cart[1] = ret.before
    /\ cartItems[1] # <<>>

\* a code in lower case, to compare codes whatever their case
Lower(s) ==
    CASE s = "PERCENT10" -> "percent10"
      [] s = "SAVE" -> "save"
      [] s = "WELCOME" -> "welcome"
      [] OTHER -> s

\* C24: the lookup of apply_promo_code is case-insensitive: an input that
\* differs from a stored code only in letter case finds that code, whatever
\* the case it was stored in, and an input that matches no stored code in any
\* case fails with 'Invalid promo code'.
C24_CaseInsensitive ==
    ret.op = "apply_promo_code" =>
        LET matches == {k \in DOMAIN promo : Lower(k) = Lower(ret.code)} IN
        IF matches = {}
        THEN ~ret.ok /\ ret.message = MsgInvalid
        ELSE /\ ret.message # MsgInvalid
             /\ ret.ok => cart[1].promo_code \in matches

\* C25: a cart never carries a discount without its code: promo_code null
\* implies applied_discount = 0 in every state.
C25_NoDiscountWithoutCode ==
    \A c \in DOMAIN cart : cart[c].promo_code = NoPromo => cart[c].applied_discount = 0

\* C12: when apply_promo_code has succeeded, the same code applied again at
\* once (no call in between) succeeds too and leaves the same promo_code and
\* the same applied_discount: the discount is computed on the raw subtotal
\* again, not on the discounted total.
C12_Idempotent ==
    [][(/\ ret.op = "apply_promo_code" /\ ret.ok
        /\ ret'.op = "apply_promo_code"
        /\ Upper(ret'.code) = Upper(ret.code)) =>
           /\ ret'.ok
           /\ cart' = cart
           /\ cartItems' = cartItems]_vars

\* a code was applied to a cart that already held it with a positive
\* discount that needed rounding, and the cart is as it was
C12_Witness ==
    /\ ret.op = "apply_promo_code" /\ ret.ok
    /\ ret.before.promo_code = Upper(ret.code)
    /\ ret.before.applied_discount > 0
    /\ cart[1] = ret.before
    /\ calculate_discount(promo[Upper(ret.code)], get_subtotal(cartItems[1]), now) % Cent # 0

-----------------------------------------------------------------------------
(* Order engine: apps/order/models.py.  create_from_cart and cancel_order  *)
(* are followed from one database access to the next; each request works   *)
(* on the objects it loaded, and save() writes the whole loaded row back.  *)

OrderCatalog ==
    (1 :> [price |-> 150 * Unit, stock_quantity |-> 5, is_active |-> TRUE,
           on_sale |-> TRUE, discount_percentage |-> 15]) @@
    (2 :> [price |-> 700 * Unit, stock_quantity |-> 1, is_active |-> TRUE,
           on_sale |-> FALSE, discount_percentage |-> 20])

ShippingCosts == {0, 60 * Unit}

\* the lines a cart can hold when it is checked out
OrderLines ==
    {[product |-> p, size |-> NULL, color |-> NULL, quantity |-> q] :
        p \in Products, q \in {1, 5}}
    \cup {[product |-> 1, size |-> 1, color |-> NULL, quantity |-> q] : q \in {1, 5}}

\* carts of at most n lines, one line per (product, size, color)
CartsOfLines(n) ==
    {items \in UNION {[1..k -> OrderLines] : k \in 0..n} :
        \A i, j \in DOMAIN items :
            (i # j) => (items[i].product # items[j].product \/ items[i].size # items[j].size)}

StockOf(table) == [p \in Products |-> table[p].stock_quantity]

NoStock == [p \in Products |-> 0]

\* a request that is not running
IdleProc ==
    [pc |-> "idle", op |-> "none", cart |-> NULL, order |-> NULL, lines |-> <<>>,
     idx |-> 0, prod |-> OrderCatalog[1], row |-> [status |-> "none"], stock0 |-> NoStock,
     cart0 |-> EmptyCart, usage0 |-> 0]

\* what a request finds when it starts on cart row c: the stock of every
\* product, the cart row and the usage count of the cart's promo code
Started(c) ==
    [IdleProc EXCEPT !.stock0 = StockOf(product),
                     !.cart0 = c,
                     !.usage0 = IF c.promo_code = NoPromo THEN 0
                                ELSE promo[c.promo_code].current_usage]

\* the record of a completed call of the order engine: what it returned, what
\* request `me` found when it started, and the call completed before it
OrderCall(op, c, o, ok, why, me, last) ==
    [op |-> op, cart |-> c, order |-> o, ok |-> ok, why |-> why, stock0 |-> me.stock0,
     lines |-> me.lines, before |-> me.cart0, usage0 |-> me.usage0,
     status0 |-> me.row.status,
     prevOp |-> last.op,
     prevOrder |-> IF last.op \in {"create_from_cart", "cancel_order"} THEN last.order ELSE NULL,
     prevOk |-> last.ok,
     prevStock0 |-> IF last.op \in {"create_from_cart", "cancel_order"}
                    THEN last.stock0 ELSE NoStock]

\* the carts hold the lines of `first` and `second`; the first cart's row is
\* one of `rows`
InitOrderWith(first, second, rows) ==
    /\ promo = ("PERCENT10" :> Percent10)
    /\ now = 0
    /\ rounding = "half_even"
    /\ product = OrderCatalog
    /\ \E row \in rows : cart = (1 :> row) @@ (2 :> EmptyCart)
    /\ \E a \in first, b \in second : cartItems = (1 :> a) @@ (2 :> b)
    /\ orders = <<>>
    /\ orderItems = <<>>
    /\ nextOrderId = 1
    /\ proc = [pr \in Procs |-> IdleProc]
    /\ ret = NoCall

\* cascade of order.delete(): the order row and its items
DeleteOrder(o) ==
    /\ orders' = [i \in DOMAIN orders \ {o} |-> orders[i]]
    /\ orderItems' = SelectSeq(orderItems, LAMBDA it : it.order # o)

\* cls.objects.create, mutated: the shipping cost is left out of the total
NewOrder_without_shipping(subtotal, shipping_cost) ==
    [status |-> "pending", payment_status |-> "pending",
     subtotal |-> subtotal, shipping_cost |-> shipping_cost,
     total_amount |-> subtotal, shipped_at |-> NULL]

\* lines 184-193: the Order row of create_from_cart, with the defaults of the
\* fields it does not pass
NewOrder(subtotal, shipping_cost) ==
    [status |-> "pending", payment_status |-> "pending",
     subtotal |-> subtotal, shipping_cost |-> shipping_cost,
     total_amount |-> subtotal + shipping_cost, shipped_at |-> NULL]

\* cart.items.exists(), mutated: a cart always counts as filled
exists_always(items) == TRUE

\* cart.items.exists()
exists(items) == items # <<>>

\* create_from_cart, lines 179-193: the emptiness check, the totals, the new
\* Order row and the list of the cart's lines
create_from_cart_begin(pr, c, shipping_cost) ==
    /\ proc[pr].pc = "idle"
    /\ nextOrderId <= MaxOrders
    /\ IF ~exists(cartItems[c])
       THEN /\ ret' = OrderCall("create_from_cart", c, NULL, FALSE, "empty",
                                Started(cart[c]), ret)
            /\ UNCHANGED <<orders, nextOrderId, proc>>
       ELSE LET subtotal == get_total_price(cart[c], cartItems[c]) IN
            /\ orders' = (nextOrderId :> NewOrder(subtotal, shipping_cost)) @@ orders
            /\ nextOrderId' = nextOrderId + 1
            /\ proc' = [proc EXCEPT ![pr] =
                    [Started(cart[c]) EXCEPT
                         !.pc = IF cartItems[c] = <<>> THEN "clear" ELSE "check",
                         !.op = "create_from_cart", !.cart = c, !.order = nextOrderId,
                         !.lines = cartItems[c], !.idx = 1]]
            /\ ret' = ret
    /\ UNCHANGED <<promo, now, rounding, product, cart, cartItems, orderItems>>

\* OrderItem.objects.create, mutated: the size of the line is not copied
OrderItem_without_size(order, cart_item) ==
    [order |-> order, product |-> cart_item.product, quantity |-> cart_item.quantity,
     size |-> NULL, color |-> cart_item.color]

\* lines 198-204: the OrderItem row made from a cart line
OrderItem(order, cart_item) ==
    [order |-> order, product |-> cart_item.product, quantity |-> cart_item.quantity,
     size |-> cart_item.size, color |-> cart_item.color]

\* line 197: cart_item.product is loaded and asked can_order(quantity)
create_from_cart_check(pr) ==
    LET me == proc[pr]
        line == me.lines[me.idx]
        loaded == product[line.product]
    IN
    /\ me.pc = "check"
    /\ proc' = [proc EXCEPT ![pr].prod = loaded,
                            ![pr].pc = IF can_order(loaded, line.quantity)
                                       THEN "item" ELSE "rollback"]
    /\ UNCHANGED <<promo, now, rounding, product, cart, cartItems, orders, orderItems, nextOrderId, ret>>

\* lines 198-205: the OrderItem row, then reduce_stock on the loaded product
create_from_cart_item(pr) ==
    LET me == proc[pr]
        line == me.lines[me.idx]
        after == reduce_stock(me.prod, line.quantity)
    IN
    /\ me.pc = "item"
    /\ orderItems' = Append(orderItems, OrderItem(me.order, line))
    /\ product' = IF after # me.prod
                  THEN [product EXCEPT ![line.product] = after]
                  ELSE product
    /\ proc' = [proc EXCEPT ![pr].prod = after,
                            ![pr].idx = @ + 1,
                            ![pr].pc = IF me.idx < Len(me.lines) THEN "check" ELSE "clear"]
    /\ UNCHANGED <<promo, now, rounding, cart, cartItems, orders, nextOrderId, ret>>

\* lines 207-209: a line cannot be ordered: order.delete(), return None
create_from_cart_rollback(pr) ==
    LET me == proc[pr] IN
    /\ me.pc = "rollback"
    /\ DeleteOrder(me.order)
    /\ proc' = [proc EXCEPT ![pr] = IdleProc]
    /\ ret' = OrderCall("create_from_cart", me.cart, me.order, FALSE, "stock", me, ret)
    /\ UNCHANGED <<promo, now, rounding, product, cart, cartItems, nextOrderId>>

\* lines 211-213: cart.clear_cart(), return order
create_from_cart_clear(pr) ==
    LET me == proc[pr] IN
    /\ me.pc = "clear"
    /\ cartItems' = [cartItems EXCEPT ![me.cart] = <<>>]
    /\ cart' = [cart EXCEPT ![me.cart] = remove_promo_code(@)]
    /\ proc' = [proc EXCEPT ![pr] = IdleProc]
    /\ ret' = OrderCall("create_from_cart", me.cart, me.order, TRUE, "", me, ret)
    /\ UNCHANGED <<promo, now, rounding, product, orders, orderItems, nextOrderId>>

\* Order.can_cancel, mutated: an order in processing can be cancelled too
can_cancel_processing(order) == order.status \in {"pending", "confirmed", "processing"}

\* Order.can_cancel(self)
can_cancel(order) == order.status \in {"pending", "confirmed"}

\* the rows of self.items.all()
ItemsOf(o) == SelectSeq(orderItems, LAMBDA it : it.order = o)

\* cancel_order, lines 159-161: the order is loaded, can_cancel() is asked
\* and the order's items are listed
cancel_order_begin(pr, o) ==
    /\ proc[pr].pc = "idle"
    /\ o \in DOMAIN orders
    /\ IF can_cancel(orders[o])
       THEN /\ proc' = [proc EXCEPT ![pr] =
                    [Started(EmptyCart) EXCEPT
                         !.pc = IF ItemsOf(o) = <<>> THEN "save" ELSE "fetch",
                         !.op = "cancel_order", !.order = o,
                         !.lines = ItemsOf(o), !.idx = 1, !.row = orders[o]]]
            /\ ret' = ret
       ELSE /\ ret' = OrderCall("cancel_order", NULL, o, FALSE, "status",
                                [Started(EmptyCart) EXCEPT !.row = orders[o],
                                                           !.lines = ItemsOf(o)], ret)
            /\ proc' = proc
    /\ UNCHANGED <<promo, now, rounding, product, cart, cartItems, orders, orderItems, nextOrderId>>

\* line 162: item.product is loaded
cancel_order_fetch(pr) ==
    LET me == proc[pr] IN
    /\ me.pc = "fetch"
    /\ proc' = [proc EXCEPT ![pr].prod = product[me.lines[me.idx].product],
                            ![pr].pc = "restore"]
    /\ UNCHANGED <<promo, now, rounding, product, cart, cartItems, orders, orderItems, nextOrderId, ret>>

\* line 162: increase_stock(item.quantity) on the loaded product
cancel_order_restore(pr) ==
    LET me == proc[pr]
        line == me.lines[me.idx]
    IN
    /\ me.pc = "restore"
    /\ product' = [product EXCEPT ![line.product] = increase_stock(me.prod, line.quantity)]
    /\ proc' = [proc EXCEPT ![pr].idx = @ + 1,
                            ![pr].pc = IF me.idx < Len(me.lines) THEN "fetch" ELSE "save"]
    /\ UNCHANGED <<promo, now, rounding, cart, cartItems, orders, orderItems, nextOrderId, ret>>

\* lines 164-166: status = 'cancelled', save(), return True
cancel_order_save(pr) ==
    LET me == proc[pr] IN
    /\ me.pc = "save"
    /\ orders' = (me.order :> [me.row EXCEPT !.status = "cancelled"]) @@ orders
    /\ proc' = [proc EXCEPT ![pr] = IdleProc]
    /\ ret' = OrderCall("cancel_order", NULL, me.order, TRUE, "", me, ret)
    /\ UNCHANGED <<promo, now, rounding, product, cart, cartItems, orderItems, nextOrderId>>

AllIdle == \A pr \in Procs : proc[pr].pc = "idle"

\* no request other than pr is running
Alone(pr) == \A other \in Procs \ {pr} : proc[other].pc = "idle"

\* requests served one at a time: a request runs to its end before the next starts
NextOrder ==
    \E pr \in Procs :
        \/ \E shipping_cost \in ShippingCosts :
               Alone(pr) /\ create_from_cart_begin(pr, pr, shipping_cost)
        \/ Alone(pr) /\ create_from_cart_check(pr)
        \/ Alone(pr) /\ create_from_cart_item(pr)
        \/ Alone(pr) /\ create_from_cart_rollback(pr)
        \/ Alone(pr) /\ create_from_cart_clear(pr)
        \/ \E o \in DOMAIN orders : Alone(pr) /\ cancel_order_begin(pr, o)
        \/ Alone(pr) /\ cancel_order_fetch(pr)
        \/ Alone(pr) /\ cancel_order_restore(pr)
        \/ Alone(pr) /\ cancel_order_save(pr)

\* the row of a cart without a code, and of a cart that took the 10% code when
\* its subtotal was 3500 and whose lines were changed afterwards
OrderCartRows == {EmptyCart, [promo_code |-> "PERCENT10", applied_discount |-> 350 * Unit]}

InitOrder == InitOrderWith(CartsOfLines(MaxLines), CartsOfLines(1), OrderCartRows)

SpecOrder == InitOrder /\ [][NextOrder]_vars

\* requests served concurrently: their database accesses interleave
NextRace ==
    \E pr \in Procs :
        \/ create_from_cart_begin(pr, pr, 0)
        \/ create_from_cart_check(pr)
        \/ create_from_cart_item(pr)
        \/ create_from_cart_rollback(pr)
        \/ create_from_cart_clear(pr)
        \/ \E o \in DOMAIN orders : cancel_order_begin(pr, o)
        \/ cancel_order_fetch(pr)
        \/ cancel_order_restore(pr)
        \/ cancel_order_save(pr)

\* two carts of one line each, without size or color
RaceCarts == {<<line>> : line \in {l \in OrderLines : l.size = NULL}}

InitRace == InitOrderWith(RaceCarts, RaceCarts, {EmptyCart})

SpecRace == InitRace /\ [][NextRace]_vars

\* the quantity of product p in the orders that exist and are not cancelled
RECURSIVE Ordered(_, _)
Ordered(items, p) ==
    IF items = <<>> THEN 0
    ELSE (IF /\ Head(items).product = p
             /\ Head(items).order \in DOMAIN orders
             /\ orders[Head(items).order].status # "cancelled"
          THEN Head(items).quantity ELSE 0) + Ordered(Tail(items), p)

\* C1: create_from_cart is all-or-nothing: when it returns no order because a
\* line fails the stock check, no Order and no OrderItem of the attempt
\* remains and every product's stock equals its value before the call.
C1_AllOrNothing ==
    (AllIdle /\ ret.op = "create_from_cart" /\ ~ret.ok /\ ret.why = "stock") =>
        /\ ret.order \notin DOMAIN orders
        /\ \A i \in 1..Len(orderItems) : orderItems[i].order # ret.order
        /\ \A p \in Products : product[p].stock_quantity = ret.stock0[p]

\* C2: no oversell under concurrency: whatever the interleaving of two
\* create_from_cart calls on different carts, the quantities of a product in
\* the orders created never add up to more than the product's stock before
\* the calls (with stock 5, requests of 5 and 1 never both succeed).
C2_NoOversell ==
    AllIdle => \A p \in Products : Ordered(orderItems, p) <= OrderCatalog[p].stock_quantity

\* C3: create_from_cart followed at once by cancel_order on the order it
\* created leaves every product's stock exactly as it was before the checkout.
C3_RoundTrip ==
    (/\ AllIdle
     /\ ret.op = "cancel_order" /\ ret.ok
     /\ ret.prevOp = "create_from_cart" /\ ret.prevOk /\ ret.prevOrder = ret.order) =>
        \A p \in Products : product[p].stock_quantity = ret.prevStock0[p]

\* an order of two lines of the same product was created and then cancelled
C3_Witness ==
    /\ AllIdle
    /\ ret.op = "cancel_order" /\ ret.ok
    /\ ret.prevOp = "create_from_cart" /\ ret.prevOk /\ ret.prevOrder = ret.order
    /\ Len(ItemsOf(ret.order)) = 2
    /\ ItemsOf(ret.order)[1].product = ItemsOf(ret.order)[2].product
    /\ orders[ret.order].status = "cancelled"

\* C13: a code's current_usage goes up by exactly one for every order that
\* create_from_cart creates from a cart holding that code, and a failed
\* checkout leaves it as it was.
C13_UsageCounted ==
    (AllIdle /\ ret.op = "create_from_cart" /\ ret.before.promo_code # NoPromo) =>
        promo[ret.before.promo_code].current_usage =
            ret.usage0 + (IF ret.ok THEN 1 ELSE 0)

\* the quantity of product p over the lines of a cart
RECURSIVE QuantityOf(_, _)
QuantityOf(lines, p) ==
    IF lines = <<>> THEN 0
    ELSE (IF Head(lines).product = p THEN Head(lines).quantity ELSE 0)
         + QuantityOf(Tail(lines), p)

\* C16: when create_from_cart succeeds the order has exactly one OrderItem per
\* cart line, with the line's product, size, color and quantity, and every
\* product's stock is lower than before the call by exactly the quantity of
\* that product over the cart's lines (so by 0 for a product not in the cart).
C16_ItemsAndStock ==
    (AllIdle /\ ret.op = "create_from_cart" /\ ret.ok) =>
        LET items == ItemsOf(ret.order) IN
        /\ Len(items) = Len(ret.lines)
        /\ \A i \in 1..Len(ret.lines) :
               /\ items[i].product = ret.lines[i].product
               /\ items[i].size = ret.lines[i].size
               /\ items[i].color = ret.lines[i].color
               /\ items[i].quantity = ret.lines[i].quantity
        /\ \A p \in Products :
               product[p].stock_quantity = ret.stock0[p] - QuantityOf(ret.lines, p)

\* an order was created from two lines of one product, one of them with a size
C16_Witness ==
    /\ AllIdle /\ ret.op = "create_from_cart" /\ ret.ok
    /\ Len(ret.lines) = 2
    /\ ret.lines[1].product = ret.lines[2].product
    /\ \E i \in 1..2 : ret.lines[i].size # NULL
    /\ Len(ItemsOf(ret.order)) = 2
    /\ product[ret.lines[1].product].stock_quantity = ret.stock0[ret.lines[1].product] - 2

\* C17: after a successful create_from_cart the cart has no lines, no promo
\* code and applied_discount 0; after a failed one its lines, promo code and
\* discount are what they were before the call.
C17_CartAfterCheckout ==
    (AllIdle /\ ret.op = "create_from_cart") =>
        IF ret.ok
        THEN /\ cartItems[ret.cart] = <<>>
             /\ cart[ret.cart].promo_code = NoPromo
             /\ cart[ret.cart].applied_discount = 0
        ELSE /\ cartItems[ret.cart] = ret.lines
             /\ cart[ret.cart] = ret.before

\* an order was created from a cart that held a code and a discount
C17_Witness ==
    /\ AllIdle /\ ret.op = "create_from_cart" /\ ret.ok
    /\ ret.lines # <<>>
    /\ ret.before.promo_code = "PERCENT10"
    /\ ret.before.applied_discount > 0
    /\ cartItems[ret.cart] = <<>>
    /\ cart[ret.cart] = EmptyCart

\* C18: create_from_cart on a cart without lines returns no order and changes
\* nothing: no Order or OrderItem row, no stock, and the cart keeps its promo
\* code and discount.
C18_EmptyCart ==
    [][(/\ ret' # ret
        /\ ret'.op = "create_from_cart"
        /\ cartItems[ret'.cart] = <<>>) =>
           /\ ~ret'.ok
           /\ ret'.order = NULL
           /\ UNCHANGED <<orders, orderItems, nextOrderId, product, promo, cart, cartItems>>]_vars

\* the checkout of a cart without lines that holds a code was refused, after
\* an order of the other cart had been created
C18_Witness ==
    /\ AllIdle /\ ret.op = "create_from_cart" /\ ~ret.ok
    /\ ret.why = "empty" /\ ret.order = NULL
    /\ ret.before.promo_code = "PERCENT10"
    /\ cart[ret.cart] = ret.before
    /\ cartItems[ret.cart] = <<>>
    /\ DOMAIN orders # {}
    /\ nextOrderId = Cardinality(DOMAIN orders) + 1

-----------------------------------------------------------------------------
(* The life of an order: checkout, the status changes of the administrators *)
(* and cancellation, one request at a time                                   *)

\* STATUS_CHOICES
Statuses == {"pending", "confirmed", "processing", "shipped", "delivered", "cancelled"}

\* the record of a completed call on order o that is not a checkout or a cancellation
StatusCall(op, o) ==
    OrderCall(op, NULL, o, TRUE, "", [Started(EmptyCart) EXCEPT !.row = orders[o]], ret)

\* a mark_as_shipped that changes the status and leaves the timestamp
Shipped_without_stamp(order) ==
    [order EXCEPT !.status = "shipped"]

\* the row Order.mark_as_shipped saves: status shipped, shipped_at = timezone.now()
Shipped(order) ==
    [order EXCEPT !.status = "shipped", !.shipped_at = now]

\* Order.mark_as_shipped(self)
mark_as_shipped(o) ==
    /\ AllIdle
    /\ orders' = [orders EXCEPT ![o] = Shipped(orders[o])]
    /\ ret' = StatusCall("mark_as_shipped", o)
    /\ UNCHANGED <<promo, now, rounding, product, cart, cartItems, orderItems, nextOrderId, proc>>

\* OrderAdmin.mark_as_confirmed on the selected order
OrderAdmin_mark_as_confirmed(o) ==
    /\ AllIdle
    /\ orders' = IF orders[o].status = "pending"
                 THEN [orders EXCEPT ![o].status = "confirmed"]
                 ELSE orders
    /\ ret' = StatusCall("OrderAdmin.mark_as_confirmed", o)
    /\ UNCHANGED <<promo, now, rounding, product, cart, cartItems, orderItems, nextOrderId, proc>>

\* OrderAdmin.mark_as_shipped on the selected order
OrderAdmin_mark_as_shipped(o) ==
    /\ AllIdle
    /\ orders' = IF orders[o].status \in {"confirmed", "processing"}
                 THEN [orders EXCEPT ![o] = Shipped(orders[o])]
                 ELSE orders
    /\ ret' = StatusCall("OrderAdmin.mark_as_shipped", o)
    /\ UNCHANGED <<promo, now, rounding, product, cart, cartItems, orderItems, nextOrderId, proc>>

\* OrderAdmin.mark_as_delivered on the selected order
OrderAdmin_mark_as_delivered(o) ==
    /\ AllIdle
    /\ orders' = IF orders[o].status = "shipped"
                 THEN [orders EXCEPT ![o].status = "delivered"]
                 ELSE orders
    /\ ret' = StatusCall("OrderAdmin.mark_as_delivered", o)
    /\ UNCHANGED <<promo, now, rounding, product, cart, cartItems, orderItems, nextOrderId, proc>>

\* OrderAdmin.list_editable: the status column of the change list is a form field
OrderAdmin_list_editable(o, status) ==
    /\ AllIdle
    /\ orders' = [orders EXCEPT ![o].status = status]
    /\ ret' = StatusCall("OrderAdmin.list_editable", o)
    /\ UNCHANGED <<promo, now, rounding, product, cart, cartItems, orderItems, nextOrderId, proc>>

\* cancelling order o keeps every stock within the bound of the model
Restorable(o) ==
    \A p \in Products :
        product[p].stock_quantity + QuantityOf(ItemsOf(o), p) <= MaxStock

NextStatus ==
    \/ \E pr \in Procs, shipping_cost \in ShippingCosts :
           Alone(pr) /\ create_from_cart_begin(pr, pr, shipping_cost)
    \/ \E pr \in Procs : Alone(pr) /\ create_from_cart_check(pr)
    \/ \E pr \in Procs : Alone(pr) /\ create_from_cart_item(pr)
    \/ \E pr \in Procs : Alone(pr) /\ create_from_cart_rollback(pr)
    \/ \E pr \in Procs : Alone(pr) /\ create_from_cart_clear(pr)
    \/ \E pr \in Procs, o \in DOMAIN orders :
           Alone(pr) /\ Restorable(o) /\ cancel_order_begin(pr, o)
    \/ \E pr \in Procs : Alone(pr) /\ cancel_order_fetch(pr)
    \/ \E pr \in Procs : Alone(pr) /\ cancel_order_restore(pr)
    \/ \E pr \in Procs : Alone(pr) /\ cancel_order_save(pr)
    \/ \E o \in DOMAIN orders : mark_as_shipped(o)
    \/ \E o \in DOMAIN orders : OrderAdmin_mark_as_confirmed(o)
    \/ \E o \in DOMAIN orders : OrderAdmin_mark_as_shipped(o)
    \/ \E o \in DOMAIN orders : OrderAdmin_mark_as_delivered(o)
    \/ \E o \in DOMAIN orders, status \in Statuses : OrderAdmin_list_editable(o, status)

\* one cart is checked out, the other one has no lines
InitStatus == InitOrderWith(CartsOfLines(1), {<<>>}, OrderCartRows)

SpecStatus == InitStatus /\ [][NextStatus]_vars

\* C27: shipped_at is written only by the transition to shipped: an order is
\* created with shipped_at null; a step that changes an order's shipped_at is
\* a mark_as_shipped on that order, which leaves it shipped and stamped with
\* the current time; every mark_as_shipped on an order leaves it shipped and
\* stamped; checkout and cancellation never change it.
C27_ShippedAt ==
    [][\A o \in DOMAIN orders' :
          /\ o \notin DOMAIN orders => orders'[o].shipped_at = NULL
          /\ (o \in DOMAIN orders /\ orders'[o].shipped_at # orders[o].shipped_at) =>
                /\ ret'.op \in {"mark_as_shipped", "OrderAdmin.mark_as_shipped"}
                /\ ret'.order = o
                /\ orders'[o].status = "shipped"
                /\ orders'[o].shipped_at = now
          /\ (ret'.op = "mark_as_shipped" /\ ret'.order = o /\ ret' # ret) =>
                /\ orders'[o].status = "shipped"
                /\ orders'[o].shipped_at = now
                /\ orders'[o].shipped_at # NULL
          /\ (ret'.op \in {"create_from_cart", "cancel_order"} /\ o \in DOMAIN orders) =>
                orders'[o].shipped_at = orders[o].shipped_at]_vars

C27_Witness ==
    /\ AllIdle /\ ret.op = "cancel_order" /\ ~ret.ok
    /\ ret.order \in DOMAIN orders
    /\ orders[ret.order].status = "shipped"
    /\ orders[ret.order].shipped_at = now
    /\ ret.status0 = "shipped"
    /\ ret.prevOp \in {"mark_as_shipped", "OrderAdmin.mark_as_shipped"}

\* C14: cancel_order succeeds exactly on an order that is pending or
\* confirmed; on an order in processing, shipped, delivered or cancelled it
\* returns failure and changes neither the status nor any stock; on success
\* every product's stock is raised by the quantity of the order's items, the
\* status is cancelled, and the order and its items are still there.
C14_Cancel ==
    (AllIdle /\ ret.op = "cancel_order") =>
        /\ ret.ok <=> ret.status0 \in {"pending", "confirmed"}
        /\ ret.order \in DOMAIN orders
        /\ ItemsOf(ret.order) = ret.lines
        /\ IF ret.ok
           THEN /\ orders[ret.order].status = "cancelled"
                /\ \A p \in Products :
                       product[p].stock_quantity = ret.stock0[p] + QuantityOf(ret.lines, p)
           ELSE /\ orders[ret.order].status = ret.status0
                /\ ret.status0 \in {"processing", "shipped", "delivered", "cancelled"}
                /\ \A p \in Products : product[p].stock_quantity = ret.stock0[p]

\* a confirmed order with an item was cancelled: its stock is back and the
\* order and its item are kept
C14_Witness ==
    /\ AllIdle /\ ret.op = "cancel_order" /\ ret.ok
    /\ ret.status0 = "confirmed"
    /\ ret.lines # <<>>
    /\ ItemsOf(ret.order) = ret.lines
    /\ orders[ret.order].status = "cancelled"
    /\ \E p \in Products : product[p].stock_quantity > ret.stock0[p]

\* C15: delivered and cancelled are terminal: no cancel_order and no
\* mark_as_shipped changes the status of an order that is delivered or
\* cancelled.
C15_Terminal ==
    [][\A o \in DOMAIN orders :
          (/\ orders[o].status \in {"delivered", "cancelled"}
           /\ ret' # ret
           /\ ret'.op \in {"cancel_order", "mark_as_shipped"}) =>
              /\ o \in DOMAIN orders'
              /\ orders'[o].status = orders[o].status]_vars

\* the discounted total of a cart row over its lines
DiscountedTotal(row, lines) ==
    LET difference == SumLines(lines) - row.applied_discount
    IN IF difference > 0 THEN difference ELSE 0

\* C19, at creation: the order of a create_from_cart call has subtotal = the
\* cart's discounted total at the call, max(raw subtotal - applied_discount, 0),
\* and total_amount = subtotal + shipping_cost
C19_AtCreation ==
    /\ \A pr \in Procs :
          proc[pr].op = "create_from_cart" =>
              LET order == orders[proc[pr].order] IN
              /\ order.subtotal = DiscountedTotal(proc[pr].cart0, proc[pr].lines)
              /\ order.total_amount = order.subtotal + order.shipping_cost
    /\ (AllIdle /\ ret.op = "create_from_cart" /\ ret.ok) =>
          LET order == orders[ret.order] IN
          /\ order.subtotal = DiscountedTotal(ret.before, ret.lines)
          /\ order.total_amount = order.subtotal + order.shipping_cost

\* C19, afterwards: no step changes the subtotal, shipping_cost or
\* total_amount of an order that stays
C19_Afterwards ==
    \A o \in DOMAIN orders \cap DOMAIN orders' :
        /\ orders'[o].subtotal = orders[o].subtotal
        /\ orders'[o].shipping_cost = orders[o].shipping_cost
        /\ orders'[o].total_amount = orders[o].total_amount

\* C19: every order created by create_from_cart has subtotal = the cart's
\* discounted total at the call and total_amount = subtotal + shipping_cost,
\* and no later operation (cancel_order, mark_as_shipped, the administrators'
\* status changes) changes subtotal, shipping_cost or total_amount.
C19_OrderAmounts == [](C19_AtCreation) /\ [][C19_Afterwards]_vars

\* an order made from a discounted cart with a shipping cost was shipped and
\* still has its amounts
C19_Witness ==
    /\ AllIdle /\ ret.op = "mark_as_shipped"
    /\ orders[ret.order].status = "shipped"
    /\ orders[ret.order].shipping_cost > 0
    /\ orders[ret.order].subtotal = 350 * Unit
    /\ orders[ret.order].total_amount = 410 * Unit

-----------------------------------------------------------------------------
(* The sale price and the savings of a product, as functions of its row *)

\* prices and discount percentages of the products on display
SalePrices == {0, 1, 3, 150, 700}

SalePercentages == {0, 15, 33, 50, 100}

InitSale ==
    /\ promo = ("PERCENT10" :> Percent10)
    /\ now = 0
    /\ rounding = "half_even"
    /\ \E price \in SalePrices, percentage \in SalePercentages, sale \in BOOLEAN :
          product = [Catalog EXCEPT ![1].price = price * Unit,
                                    ![1].discount_percentage = percentage,
                                    ![1].on_sale = sale]
    /\ cart = [c \in Carts |-> EmptyCart]
    /\ cartItems = [c \in Carts |-> <<>>]
    /\ orders = <<>>
    /\ orderItems = <<>>
    /\ nextOrderId = 1
    /\ proc = [pr \in Procs |-> Idle]
    /\ ret = NoCall

\* product.get_sale_price()
Do_get_sale_price(p) ==
    /\ ret' = Call("get_sale_price", "", p, TRUE, "", get_sale_price(product[p]), EmptyCart)
    /\ UNCHANGED tables

\* product.get_savings_amount()
Do_get_savings_amount(p) ==
    /\ ret' = Call("get_savings_amount", "", p, TRUE, "",
                   get_savings_amount(product[p]), EmptyCart)
    /\ UNCHANGED tables

NextSale ==
    \/ \E p \in Products : Do_get_sale_price(p)
    \/ \E p \in Products : Do_get_savings_amount(p)

SpecSale == InitSale /\ [][NextSale]_vars

\* C30: for a product with price >= 0 and discount_percentage in 0..100 the
\* sale price plus the savings is the price, the sale price lies between 0
\* and the price, and a product that is not on sale has its price as sale
\* price and savings 0.
C30_SalePlusSavings ==
    ret.op \in {"get_sale_price", "get_savings_amount"} =>
        LET p == product[ret.amount]
            sale == IF ret.op = "get_sale_price" THEN ret.value ELSE get_sale_price(p)
            savings == IF ret.op = "get_savings_amount" THEN ret.value
                       ELSE get_savings_amount(p)
        IN /\ sale + savings = p.price
           /\ 0 <= sale /\ sale <= p.price
           /\ ~p.on_sale => (sale = p.price /\ savings = 0)

-----------------------------------------------------------------------------
(* Usage counting: use_code on copies of a promo code that the callers *)
(* loaded on their own                                                  *)

\* the record of the use_code calls completed so far: the usage the code
\* started with and the number of calls
UsageCalls(code, initial, calls) == Call("use_code", code, initial, TRUE, "", calls, EmptyCart)

InitUsage ==
    /\ \E cap \in {NULL} \cup (1..MaxUsage), used \in 0..MaxUsage :
          /\ cap # NULL => used <= cap
          /\ promo = ("PERCENT10" :> [Percent10 EXCEPT !.max_usage = cap,
                                                       !.current_usage = used])
          /\ ret = UsageCalls("PERCENT10", used, 0)
    /\ now = 0
    /\ rounding = "half_even"
    /\ product = Catalog
    /\ cart = [c \in Carts |-> EmptyCart]
    /\ cartItems = [c \in Carts |-> <<>>]
    /\ orders = <<>>
    /\ orderItems = <<>>
    /\ nextOrderId = 1
    /\ proc = [pr \in Procs |-> Idle]

\* the requests that hold a loaded copy
Loaded == {pr \in Procs : proc[pr].pc = "loaded"}

\* PromoCode.objects.get(code=...): the caller's copy of the row
use_code_load(pr, code) ==
    /\ proc[pr].pc = "idle"
    /\ ret.value + Cardinality(Loaded) < MaxCalls
    /\ proc' = [proc EXCEPT ![pr] = [pc |-> "loaded", code |-> code, copy |-> promo[code]]]
    /\ UNCHANGED <<promo, now, rounding, product, cart, cartItems, orders, orderItems,
                   nextOrderId, ret>>

\* promo.use_code() on the copy: current_usage += 1, save()
use_code_save(pr) ==
    /\ proc[pr].pc = "loaded"
    /\ promo' = [promo EXCEPT ![proc[pr].code] = use_code(proc[pr].copy)]
    /\ proc' = [proc EXCEPT ![pr] = Idle]
    /\ ret' = UsageCalls(proc[pr].code, ret.amount, ret.value + 1)
    /\ UNCHANGED <<now, rounding, product, cart, cartItems, orders, orderItems, nextOrderId>>

NextUsage ==
    \/ \E pr \in Procs, code \in DOMAIN promo : use_code_load(pr, code)
    \/ \E pr \in Procs : use_code_save(pr)

SpecUsage == InitUsage /\ [][NextUsage]_vars

\* C26: whatever the interleaving of k use_code calls on separately loaded
\* copies of a code, the stored current_usage ends at its initial value plus
\* k, and the current_usage of a capped code never exceeds max_usage.
C26_UsageAtomic ==
    LET code == promo[ret.code] IN
    /\ AllIdle => code.current_usage = ret.amount + ret.value
    /\ code.max_usage # NULL => code.current_usage <= code.max_usage

-----------------------------------------------------------------------------
(* Cancellation under concurrency: one order exists and two requests call   *)
(* cancel_order on it, their database accesses interleaved                   *)

\* the items of the order that exists: the lines of a checked-out cart that
\* the catalog's stock could serve
CancelledLines ==
    {lines \in CartsOfLines(MaxLines) :
        /\ lines # <<>>
        /\ \A p \in Products : QuantityOf(lines, p) <= OrderCatalog[p].stock_quantity}

\* order 1 was checked out of the catalog's stock and is in any status
InitCancel ==
    /\ promo = ("PERCENT10" :> Percent10)
    /\ now = 0
    /\ rounding = "half_even"
    /\ cart = (1 :> EmptyCart) @@ (2 :> EmptyCart)
    /\ cartItems = (1 :> <<>>) @@ (2 :> <<>>)
    /\ nextOrderId = 2
    /\ proc = [pr \in Procs |-> IdleProc]
    /\ \E lines \in CancelledLines, status \in Statuses :
          /\ orderItems = [i \in DOMAIN lines |-> OrderItem(1, lines[i])]
          /\ product = [p \in Products |->
                            reduce_stock(OrderCatalog[p], QuantityOf(lines, p))]
          /\ orders = (1 :> [NewOrder(get_subtotal(lines), 0) EXCEPT !.status = status])
          /\ ret = NoCall

NextCancel ==
    \E pr \in Procs :
        \/ cancel_order_begin(pr, 1)
        \/ cancel_order_fetch(pr)
        \/ cancel_order_restore(pr)
        \/ cancel_order_save(pr)

SpecCancel == InitCancel /\ [][NextCancel]_vars

\* C28: the stock of an order is restored at most once: a cancel_order on an
\* order that is already cancelled fails and changes no stock, and whatever
\* the interleaving of two cancel_order calls on a pending or confirmed order,
\* every product's stock ends higher by exactly the ordered quantity, so never
\* above the stock the order was taken from.
C28_RestoredOnce ==
    /\ \A p \in Products : product[p].stock_quantity <= OrderCatalog[p].stock_quantity
    /\ (AllIdle /\ ret.op = "cancel_order" /\ ~ret.ok) => StockOf(product) = ret.stock0
    /\ (AllIdle /\ ret.op = "cancel_order" /\ ret.ok) =>
           \A p \in Products : product[p].stock_quantity = OrderCatalog[p].stock_quantity

-----------------------------------------------------------------------------
(* Whose cart: get_or_create_cart of apps/cart/views.py.  The cart table    *)
(* is a sequence of rows with their owner columns; get_or_create is a get   *)
(* followed, when nothing is found, by a create                              *)

Users == {1, 2}

SessionKeys == {11, 12}

\* Cart(user=..., session_id=...) with the defaults of the other columns
NewCart(user, session_id) ==
    [user |-> user, session_id |-> session_id,
     promo_code |-> NoPromo, applied_discount |-> 0]

\* the lookup of get_or_create: user=request.user for an authenticated
\* request, session_id=session_key and user=None for an anonymous one
CartsOf(user, session_key) ==
    IF user # NULL
    THEN {c \in DOMAIN cart : cart[c].user = user}
    ELSE {c \in DOMAIN cart : cart[c].session_id = session_key /\ cart[c].user = NULL}

\* request.session.create(): a key that no session has
FreshKeys ==
    {k \in SessionKeys :
        /\ \A c \in DOMAIN cart : cart[c].session_id # k
        /\ \A pr \in Procs : proc[pr].pc = "idle" \/ proc[pr].row.session_id # k}

\* the record of a completed get_or_create_cart and of the call before it
IdentityCall(user, session_key, c, ok, created, last) ==
    [op |-> "get_or_create_cart", user |-> user, session_key |-> session_key,
     cart |-> c, ok |-> ok, created |-> created,
     prevOp |-> last.op, prevUser |-> last.user,
     prevKey |-> last.session_key, prevCart |-> last.cart]

InitIdentity ==
    /\ promo = ("PERCENT10" :> Percent10)
    /\ now = 0
    /\ rounding = "half_even"
    /\ product = Catalog
    /\ cart = <<>>
    /\ cartItems = <<>>
    /\ orders = <<>>
    /\ orderItems = <<>>
    /\ nextOrderId = 1
    /\ proc = [pr \in Procs |-> IdleProc]
    /\ ret = [op |-> "none", user |-> NULL, session_key |-> NULL, cart |-> NULL,
              ok |-> TRUE, created |-> FALSE, prevOp |-> "none", prevUser |-> NULL,
              prevKey |-> NULL, prevCart |-> NULL]

\* lines 10-21, the get of get_or_create: user is request.user or NULL for an
\* anonymous request, session_key the key of the request's cookie or NULL
get_or_create_cart_get(pr, user, session_key) ==
    /\ proc[pr].pc = "idle"
    /\ \E key \in (IF user # NULL THEN {NULL}
                    ELSE IF session_key # NULL THEN {session_key} ELSE FreshKeys) :
          LET found == CartsOf(user, key) IN
          IF found = {}
          THEN /\ Len(cart) < MaxCarts
               /\ proc' = [proc EXCEPT ![pr] =
                       [IdleProc EXCEPT !.pc = "create", !.op = "get_or_create_cart",
                                        !.row = [user |-> user, session_id |-> key]]]
               /\ ret' = ret
          ELSE /\ proc' = proc
               /\ ret' = IF Cardinality(found) = 1
                         THEN IdentityCall(user, key, CHOOSE c \in found : TRUE,
                                           TRUE, FALSE, ret)
                         \* MultipleObjectsReturned
                         ELSE IdentityCall(user, key, NULL, FALSE, FALSE, ret)
    /\ UNCHANGED <<promo, now, rounding, product, cart, cartItems, orders, orderItems, nextOrderId>>

\* the create of get_or_create: Cart.user is a OneToOneField, so a second
\* cart of one user is refused and get_or_create returns the cart that is
\* there; session_id has no unique constraint
get_or_create_cart_create(pr) ==
    LET me == proc[pr]
        user == me.row.user
        key == me.row.session_id
        taken == {c \in DOMAIN cart : user # NULL /\ cart[c].user = user}
    IN
    /\ me.pc = "create"
    /\ IF taken # {}
       THEN /\ cart' = cart
            /\ ret' = IdentityCall(user, key, CHOOSE c \in taken : TRUE, TRUE, FALSE, ret)
       ELSE /\ cart' = Append(cart, NewCart(user, key))
            /\ ret' = IdentityCall(user, key, Len(cart) + 1, TRUE, TRUE, ret)
    /\ proc' = [proc EXCEPT ![pr] = IdleProc]
    /\ UNCHANGED <<promo, now, rounding, product, cartItems, orders, orderItems, nextOrderId>>

NextIdentity ==
    \/ \E pr \in Procs, user \in Users : get_or_create_cart_get(pr, user, NULL)
    \/ \E pr \in Procs, key \in SessionKeys \cup {NULL} : get_or_create_cart_get(pr, NULL, key)
    \/ \E pr \in Procs : get_or_create_cart_create(pr)

SpecIdentity == InitIdentity /\ [][NextIdentity]_vars

\* C23: get_or_create_cart returns a cart owned by exactly one of a user or a
\* session: user set and session_id null for an authenticated request,
\* session_id set and user null for an anonymous one; and a request by the
\* identity of the request before it gets the same cart.
C23_OneOwner ==
    ret.op = "get_or_create_cart" =>
        /\ ret.ok /\ ret.cart \in DOMAIN cart
        /\ ret.user # NULL =>
              cart[ret.cart].user = ret.user /\ cart[ret.cart].session_id = NULL
        /\ ret.user = NULL =>
              /\ ret.session_key # NULL
              /\ cart[ret.cart].session_id = ret.session_key
              /\ cart[ret.cart].user = NULL
        /\ (ret.prevOp = "get_or_create_cart" /\ ret.prevUser = ret.user
                /\ ret.prevKey = ret.session_key) =>
              ret.prevCart = ret.cart

-----------------------------------------------------------------------------
(* The lines of one cart under concurrent requests: add_to_cart and         *)
(* Cart.add_item are followed from their lookup of the line to their write, *)
(* each request working on the line it loaded                                *)

\* the integers a client can post as quantity
PostedQuantities == (0 - 1)..MaxQty

\* a request that looked the line up and has not written yet
Adding(op, pc, idx, item, loaded) ==
    [pc |-> pc, op |-> op, idx |-> idx, item |-> item, loaded |-> loaded]

\* a request that is not running
NotAdding ==
    Adding("none", "idle", 0, [product |-> NULL, size |-> NULL, color |-> NULL, quantity |-> 0], 0)

InitLines ==
    /\ promo = ("PERCENT10" :> Percent10) @@ ("SAVE" :> Save)
    /\ now = 0
    /\ rounding = "half_even"
    /\ product = Catalog
    /\ cart = [c \in Carts |-> EmptyCart]
    /\ cartItems = [c \in Carts |-> <<>>]
    /\ orders = <<>>
    /\ orderItems = <<>>
    /\ nextOrderId = 1
    /\ proc = [pr \in Procs |-> NotAdding]
    /\ ret = NoCall

\* add_to_cart, lines 44-77: the posted quantity, the product, its size and
\* color, can_order(quantity), and the lookup of the existing line
add_to_cart_find(pr, c, p, quantity, size, color) ==
    LET m == Matching(cartItems[c], p, size, color)
        item == [product |-> p, size |-> size, color |-> color, quantity |-> quantity]
    IN
    /\ proc[pr].pc = "idle"
    /\ size \in SizeChoices(p) /\ color \in ColorChoices(p)
    /\ IF ~(product[p].is_active /\ can_order(product[p], quantity))
       THEN /\ ret' = Call("add_to_cart", "", 0, FALSE, "", 0, cart[c])
            /\ proc' = proc
       ELSE /\ ret' = ret
            /\ IF m # {}
               THEN LET i == CHOOSE j \in m : \A k \in m : j <= k IN
                    /\ cartItems[c][i].quantity + quantity <= MaxLineQty
                    /\ proc' = [proc EXCEPT ![pr] =
                            Adding("add_to_cart", "update", i, item, cartItems[c][i].quantity)]
               ELSE /\ Len(cartItems[c]) < MaxCartLines
                    /\ proc' = [proc EXCEPT ![pr] = Adding("add_to_cart", "create", 0, item, 0)]
    /\ UNCHANGED <<promo, now, rounding, product, cart, cartItems, orders, orderItems, nextOrderId>>

\* add_to_cart, lines 78-91: existing_item.quantity += quantity; save(), or
\* CartItem.objects.create(...); an exception of the database is caught and
\* leaves the cart as it was
add_to_cart_save(pr, c) ==
    LET me == proc[pr]
        quantity == me.loaded + me.item.quantity
    IN
    /\ me.pc \in {"update", "create"} /\ me.op = "add_to_cart"
    /\ me.pc = "create" => Len(cartItems[c]) < MaxCartLines
    /\ IF ~Storable(quantity)
       THEN cartItems' = cartItems
       ELSE IF me.pc = "update"
       THEN cartItems' = [cartItems EXCEPT ![c][me.idx].quantity = quantity]
       ELSE cartItems' = [cartItems EXCEPT ![c] = Append(@, me.item)]
    /\ proc' = [proc EXCEPT ![pr] = NotAdding]
    /\ ret' = Call("add_to_cart", "", 0, Storable(quantity), "", 0, cart[c])
    /\ UNCHANGED <<promo, now, rounding, product, cart, orders, orderItems, nextOrderId>>

\* Cart.add_item, lines 67-73: the get of CartItem.objects.get_or_create;
\* several rows for one tuple make get() raise MultipleObjectsReturned
add_item_get(pr, c, p, quantity, size, color) ==
    LET m == Matching(cartItems[c], p, size, color)
        item == [product |-> p, size |-> size, color |-> color, quantity |-> quantity]
    IN
    /\ proc[pr].pc = "idle"
    /\ IF Cardinality(m) > 1
       THEN /\ ret' = Call("add_item", "", 0, FALSE, "", 0, cart[c])
            /\ proc' = proc
       ELSE /\ ret' = ret
            /\ IF m # {}
               THEN LET i == CHOOSE j \in m : TRUE IN
                    /\ cartItems[c][i].quantity + quantity <= MaxLineQty
                    /\ proc' = [proc EXCEPT ![pr] =
                            Adding("add_item", "update", i, item, cartItems[c][i].quantity)]
               ELSE /\ Len(cartItems[c]) < MaxCartLines
                    /\ proc' = [proc EXCEPT ![pr] = Adding("add_item", "create", 0, item, 0)]
    /\ UNCHANGED <<promo, now, rounding, product, cart, cartItems, orders, orderItems, nextOrderId>>

\* Cart.add_item, lines 67-83: the create of get_or_create, or
\* cart_item.quantity += quantity; save(), then the promo code is applied again
add_item_save(pr, c) ==
    LET me == proc[pr]
        items == IF me.pc = "update"
                 THEN [cartItems[c] EXCEPT ![me.idx].quantity = me.loaded + me.item.quantity]
                 ELSE Append(cartItems[c], me.item)
    IN
    /\ me.pc \in {"update", "create"} /\ me.op = "add_item"
    /\ me.pc = "create" => Len(cartItems[c]) < MaxCartLines
    /\ cartItems' = [cartItems EXCEPT ![c] = items]
    /\ IF cart[c].promo_code # NoPromo
       THEN LET a == apply_promo_code(cart[c], items, cart[c].promo_code) IN
            /\ \E row \in a.rows : cart' = [cart EXCEPT ![c] = row]
            /\ ret' = Call("add_item", cart[c].promo_code, get_subtotal(items),
                           a.res.ok, a.res.message, 0, cart[c])
       ELSE /\ cart' = cart
            /\ ret' = Call("add_item", "", 0, TRUE, "", 0, cart[c])
    /\ proc' = [proc EXCEPT ![pr] = NotAdding]
    /\ UNCHANGED <<promo, now, rounding, product, orders, orderItems, nextOrderId>>

NextLines ==
    \/ \E pr \in Procs, p \in Products, quantity \in PostedQuantities :
       \E size \in SizeChoices(p), color \in ColorChoices(p) :
           add_to_cart_find(pr, 1, p, quantity, size, color)
    \/ \E pr \in Procs : add_to_cart_save(pr, 1)
    \/ \E pr \in Procs, p \in Products, quantity \in Quantities :
       \E size \in SizeChoices(p), color \in ColorChoices(p) :
           add_item_get(pr, 1, p, quantity, size, color)
    \/ \E pr \in Procs : add_item_save(pr, 1)
    \/ \E i \in DOMAIN cartItems[1] : increase_cart_item_quantity(1, i)
    \/ \E i \in DOMAIN cartItems[1] : decrease_cart_item_quantity(1, i)

SpecLines == InitLines /\ [][NextLines]_vars

\* requests served one at a time: only add_to_cart and increase_cart_item_quantity
NextLimit ==
    \/ \E pr \in Procs, p \in Products, quantity \in PostedQuantities :
       \E size \in SizeChoices(p), color \in ColorChoices(p) :
           Alone(pr) /\ add_to_cart_find(pr, 1, p, quantity, size, color)
    \/ \E pr \in Procs : add_to_cart_save(pr, 1)
    \/ \E i \in DOMAIN cartItems[1] :
           AllIdle /\ increase_cart_item_quantity(1, i)

SpecLimit == InitLines /\ [][NextLimit]_vars

\* C21: a cart holds at most one line per (product, size, color), a missing
\* size or color counting as a value of its own, whatever the interleaving of
\* the add requests.
C21_OneLinePerTuple ==
    \A c \in DOMAIN cartItems :
        \A i, j \in DOMAIN cartItems[c] :
            (i # j) =>
                \/ cartItems[c][i].product # cartItems[c][j].product
                \/ cartItems[c][i].size # cartItems[c][j].size
                \/ cartItems[c][i].color # cartItems[c][j].color

\* C22: every cart line has quantity >= 1, whatever integer add_to_cart is
\* posted and whatever add_item, increase and decrease requests are made.
C22_QuantityAtLeastOne ==
    \A c \in DOMAIN cartItems :
        \A i \in DOMAIN cartItems[c] : cartItems[c][i].quantity >= 1

\* C29: with the stock held constant, add_to_cart and
\* increase_cart_item_quantity never leave a line whose quantity is above
\* the stock_quantity of its product.
C29_WithinStock ==
    \A c \in DOMAIN cartItems :
        \A i \in DOMAIN cartItems[c] :
            cartItems[c][i].quantity <= product[cartItems[c][i].product].stock_quantity

=============================================================================
